---- MODULE Spec2Model ----
(***************************************************************************)
(* Model of the video keyframe-extraction engine,                          *)
(* backend/utils/key_frame_detector.py: keyframeDetection and the helpers  *)
(* it calls, together with the output location (the three directories,     *)
(* the keyframe images and output.csv) that successive calls share.        *)
(*                                                                         *)
(* Frame indices are 0-based as in the code; TLA+ sequences are 1-based,   *)
(* so the entry of frame x in a list is list[x + 1].                       *)
(***************************************************************************)
EXTENDS Integers, Sequences, FiniteSets, TLC

\* ------------------------------------------------------------------ bounds

\* Largest frame count the container reports.
MaxFrames == 3
\* Largest max_keyframes a call is given (max_keyframes ranges over 1..MaxCap).
MaxCap == 2
\* Number of calls of keyframeDetection into the same destination.
MaxRuns == 3
\* Longest magnitude series the selection is checked on by itself.
SelFrames == 7
\* Largest frame count reported to a call checked by itself.
CallFrames == 5
\* longest source path of the calls that differ in their paths
MaxPathLen == 7
\* Thres ranges over 0/ThresDen, 1/ThresDen, .., ThresDen/ThresDen.
ThresDen == 2

\* The pixel positions of a raster and the intensities of a pixel.
Pixels == { "p", "q" }
Levels == { 0, 1 }

\* The blurred grayscale rasters.
Rasters == [Pixels -> Levels]

\* The linear and quadratic coefficients a fitted baseline may have.
Coefs == { -1, 0, 1 }

\* ------------------------------------------------------- program constants

\* len(lstdiffMag) < 3: the fewest frames peak detection is run on.
MinFrames == 3

\* ------------------------------------------------------------ pure helpers

Range(s) == { s[k] : k \in DOMAIN s }

Min(a, b) == IF a <= b THEN a ELSE b

SeqMax(s) == CHOOSE m \in Range(s) : \A v \in Range(s) : v <= m

SeqMin(s) == CHOOSE m \in Range(s) : \A v \in Range(s) : m <= v

\* cv2.subtract on 8-bit rasters saturates at 0; cv2.countNonZero counts
\* the pixels left non-zero: those where cur is brighter than prev.
Subtract(cur, prev) ==
    [p \in DOMAIN cur |-> IF cur[p] > prev[p] THEN cur[p] - prev[p] ELSE 0]

CountNonZero(r) == Cardinality({ p \in DOMAIN r : r[p] # 0 })

\* peakutils.baseline(y, 2) fits a polynomial of degree 2 over the frame
\* positions; the fit itself is floating-point least squares of the
\* library, so the coefficients are left open: every polynomial with
\* linear and quadratic coefficients in Coefs is a possible baseline (a
\* constant term shifts the detrended series as a whole, which changes
\* neither its slopes nor its position relative to the threshold).
Baselines(n) ==
    { [k \in 1..n |-> c[1] * (k - 1) + c[2] * (k - 1) * (k - 1)] :
        c \in [1..2 -> Coefs] }

\* y - base
Detrend(y, base) == [k \in DOMAIN y |-> y[k] - base[k]]

\* np.diff(y): dy[j] = y[j+1] - y[j]
Diff(y) == [j \in 1..(Len(y) - 1) |-> y[j + 1] - y[j]]

\* The plateau handling of peakutils.indexes: every zero of dy is
\* replaced by a neighbouring non-zero slope.  [a..b] is the maximal run
\* of zeros around j.  A run touching the left end takes the slope after
\* it, a run touching the right end the slope before it; inside, the
\* positions below the median take the slope before the run, the others
\* the slope after it.
PlateauLo(dy, j) ==
    CHOOSE a \in 1..j : /\ \A k \in a..j : dy[k] = 0
                        /\ (a = 1 \/ dy[a - 1] # 0)

PlateauHi(dy, j) ==
    CHOOSE b \in j..Len(dy) : /\ \A k \in j..b : dy[k] = 0
                              /\ (b = Len(dy) \/ dy[b + 1] # 0)

FillPlateaus(dy) ==
    [j \in DOMAIN dy |->
        IF dy[j] # 0 THEN dy[j]
        ELSE LET a == PlateauLo(dy, j)
                 b == PlateauHi(dy, j)
             IN  IF a = 1 THEN dy[b + 1]
                 ELSE IF b = Len(dy) THEN dy[a - 1]
                 ELSE IF 2 * j < a + b THEN dy[a - 1]
                 ELSE dy[b + 1]]

\* The signal is totally flat: peakutils.indexes returns np.array([]),
\* an empty array of floats.
IsFlat(y) == \A j \in 1..(Len(y) - 1) : y[j + 1] = y[j]

\* Faulty variant of AboveThres: a value equal to the threshold passes.
AtOrAboveThres(y, k, num) ==
    y[k] * ThresDen >= num * (SeqMax(y) - SeqMin(y)) + SeqMin(y) * ThresDen

\* y[k] > thres * (max(y) - min(y)) + min(y), with thres = num / ThresDen
AboveThres(y, k, num) ==
    y[k] * ThresDen > num * (SeqMax(y) - SeqMin(y)) + SeqMin(y) * ThresDen

\* Faulty variant of PeakSet: the first frame needs no rise before it and
\* the last no fall after it.
PeakSetWithEnds(y, num) ==
    IF IsFlat(y) THEN {}
    ELSE LET dy == FillPlateaus(Diff(y))
         IN  { x \in 0..(Len(y) - 1) :
                 /\ (x = Len(y) - 1 \/ dy[x + 1] < 0)
                 /\ (x = 0 \/ dy[x] > 0)
                 /\ AboveThres(y, x + 1, num) }

\* The set np.where selects: a rise before, a fall after, above thres.
\* Positions are the 0-based frame indices.
PeakSet(y, num) ==
    IF IsFlat(y) THEN {}
    ELSE LET dy == FillPlateaus(Diff(y))
         IN  { x \in 1..(Len(y) - 2) :
                 /\ dy[x + 1] < 0
                 /\ dy[x] > 0
                 /\ AboveThres(y, x + 1, num) }

\* A set of integers as the ascending sequence np.where returns.
RECURSIVE SetToAscSeq(_)
SetToAscSeq(S) ==
    IF S = {} THEN << >>
    ELSE LET m == CHOOSE v \in S : \A w \in S : w <= v
         IN  Append(SetToAscSeq(S \ {m}), m)

\* peakutils.indexes(y, thres, min_dist=1); with min_dist = 1 the
\* minimum-distance pass of the library is skipped.
Indexes(y, num) == SetToAscSeq(PeakSet(y, num))

\* Faulty variant of InsertDesc: ranks by ascending magnitude, as if
\* reverse=True were missing.
InsertAsc(s, x, mags) ==
    LET ahead == { k \in 1..Len(s) : mags[s[k] + 1] <= mags[x + 1] }
        n     == Cardinality(ahead)
    IN  SubSeq(s, 1, n) \o << x >> \o SubSeq(s, n + 1, Len(s))

\* Faulty variant of InsertDesc: x goes in front of the elements of equal
\* magnitude, as an ascending sort reversed afterwards would leave it.
InsertBeforeEqual(s, x, mags) ==
    LET ahead == { k \in 1..Len(s) : mags[s[k] + 1] > mags[x + 1] }
        n     == Cardinality(ahead)
    IN  SubSeq(s, 1, n) \o << x >> \o SubSeq(s, n + 1, Len(s))

\* sorted(indices, key=lambda i: lstdiffMag[i], reverse=True): a stable
\* sort, so candidates of equal magnitude keep their order; x goes behind
\* every element whose magnitude is at least its own.
InsertDesc(s, x, mags) ==
    LET ahead == { k \in 1..Len(s) : mags[s[k] + 1] >= mags[x + 1] }
        n     == Cardinality(ahead)
    IN  SubSeq(s, 1, n) \o << x >> \o SubSeq(s, n + 1, Len(s))

RECURSIVE SortedByMagDesc(_, _)
SortedByMagDesc(ind, mags) ==
    IF ind = << >> THEN << >>
    ELSE InsertDesc(SortedByMagDesc(SubSeq(ind, 1, Len(ind) - 1), mags),
                    ind[Len(ind)], mags)

\* Faulty variant of Sorted: the ranked order is kept.
Unsorted(s) == s

\* sorted(ranked_indices)
Sorted(s) == SetToAscSeq(Range(s))

\* Faulty variant of Take: the slice is one element too long.
TakeOneMore(s, n) == SubSeq(s, 1, Min(n + 1, Len(s)))

\* [:max_keyframes]
Take(s, n) == SubSeq(s, 1, Min(n, Len(s)))

\* Faulty variant of CapIndices: ranks every frame of the series, not
\* only the candidates.
CapOverAllFrames(ind, mags, cap) ==
    IF Len(ind) > cap
    THEN Sorted(Take(SortedByMagDesc([k \in 1..Len(mags) |-> k - 1], mags), cap))
    ELSE ind

\* Lines 142-144: the cap on the number of keyframes.
CapIndices(ind, mags, cap) ==
    IF Len(ind) > cap
    THEN Sorted(Take(SortedByMagDesc(ind, mags), cap))
    ELSE ind

\* ------------------------------------------------------------------- state

VARIABLES
    \* the arguments that say where the call reads and writes
    source,         \* the path of the video, a sequence of characters
    destArg,        \* the dest argument, None when omitted
    dest,           \* dest as resolved by lines 81-82
    \* the output location
    dirs,           \* which of keyFrames, imageGrids, csvFile exist
    keyFrames,      \* n |-> the image stored as keyFrames/keyframe<n>.jpg
    csvExists,      \* os.path.exists(path2file)
    csv,            \* the rows of csvFile/output.csv
    \* the call in progress
    pc,             \* position of the call
    runs,           \* calls made so far; the call in progress is call `runs`
    before,         \* the output location as it was when the call began
    opened,         \* cap.isOpened()
    released,       \* number of cap.release() calls of this call
    length,         \* int(cap.get(cv2.CAP_PROP_FRAME_COUNT))
    i,              \* the loop variable of the frame pass
    clock,          \* time.process_time() - Start_time, in ticks
    lstfrm, lstdiffMag, timeSpans, images, full_color, lastFrame,
    Thres,          \* numerator of Thres over ThresDen
    max_keyframes, plotMetrics,
    candidates,     \* indices as returned by peakutils.indexes
    intIndices,     \* the dtype of that array is an integer one
    indices,        \* indices as handed to the output loop
    cnt, write_header,
    result,         \* what the call gave its caller
    observed,       \* history: << outcome, result >> of every finished call
    \* calls that overlap in time
    racers          \* run id |-> the locals of that call's output loop

vars == << source, destArg, dest, dirs, keyFrames, csvExists, csv, pc, runs,
           before, opened, released,
           length, i, clock, lstfrm, lstdiffMag, timeSpans, images, full_color,
           lastFrame, Thres, max_keyframes, plotMetrics, candidates,
           intIndices, indices, cnt, write_header, result, observed,
           racers >>

argVars == << source, destArg, dest >>

fsVars == << dirs, keyFrames, csvExists, csv >>

passVars == << lstfrm, lstdiffMag, timeSpans, images, full_color, lastFrame,
               i, clock >>

selVars == << Thres, max_keyframes, plotMetrics, candidates, intIndices,
              indices >>

AllDirs == { "keyFrames", "imageGrids", "csvFile" }

NoFrame == << >>

\* The colour raster of frame x of the video that call r reads.
Frame(r, x) == << r, x >>

\* What a caller can get from a call: the value None, or an exception.
\* Pending: the call has not returned yet.
Pending == << "pending" >>
None == << "None" >>
Raised == << "raised" >>

\* A path is a sequence of characters: a name character, the dot and the
\* separator.
Chars == { "c", ".", "/" }

Paths == UNION { [1..n -> Chars] : n \in 1..MaxPathLen }

\* The source of the calls that all write to one destination: "c.c".
ClipPath == << "c", ".", "c" >>

\* Line 82: source.split('.')[0], the text before the first dot.
DefaultDest(path) ==
    LET dots == { k \in DOMAIN path : path[k] = "." }
        first == IF dots = {} THEN Len(path) + 1
                 ELSE CHOOSE k \in dots : \A d \in dots : k <= d
    IN  SubSeq(path, 1, first - 1)

Snapshot == [dirs |-> dirs, keyFrames |-> keyFrames,
             csvExists |-> csvExists, csv |-> csv]

\* No calls that overlap.
NoRacers == << >>

\* No call made yet, nothing in the destination.
NothingCalled ==
    /\ dest = None
    /\ dirs = {}
    /\ keyFrames = << >>
    /\ csvExists = FALSE
    /\ csv = << >>
    /\ pc = "idle"
    /\ runs = 0
    /\ before = [dirs |-> {}, keyFrames |-> << >>,
                 csvExists |-> FALSE, csv |-> << >>]
    /\ opened = FALSE
    /\ released = 0
    /\ length = 0
    /\ i = 0
    /\ clock = 0
    /\ lstfrm = << >>
    /\ lstdiffMag = << >>
    /\ timeSpans = << >>
    /\ images = << >>
    /\ full_color = << >>
    /\ lastFrame = NoFrame
    /\ Thres = 0
    /\ max_keyframes = 1
    /\ plotMetrics = FALSE
    /\ candidates = << >>
    /\ intIndices = TRUE
    /\ indices = << >>
    /\ cnt = 1
    /\ write_header = FALSE
    /\ result = Pending
    /\ observed = {}

Init ==
    /\ source = ClipPath
    /\ destArg = None
    /\ NothingCalled
    /\ racers = NoRacers

\* ----------------------------------------------------------------- actions

\* prepare_dirs: each of the three directories is made when absent.
prepare_dirs(d) == d \cup AllDirs

\* Lines 81-90 and 97-103: the paths, prepare_dirs, the capture, the empty
\* lists.  Thres, max_keyframes and plotMetrics are arguments the call
\* reads first at lines 140, 142 and 146; they are drawn where they are
\* first read.
Enter(isOpen, len) ==
    /\ pc = "idle"
    /\ runs < MaxRuns
    /\ runs' = runs + 1
    /\ before' = Snapshot
    /\ dest' = IF destArg = None THEN DefaultDest(source) ELSE destArg
    /\ UNCHANGED << source, destArg, racers >>
    /\ dirs' = prepare_dirs(dirs)
    /\ UNCHANGED << keyFrames, csvExists, csv >>
    /\ opened' = isOpen
    /\ length' = len
    /\ released' = 0
    /\ Thres' = 0
    /\ max_keyframes' = 1
    /\ plotMetrics' = FALSE
    /\ i' = 0
    /\ clock' = 0
    /\ lstfrm' = << >>
    /\ lstdiffMag' = << >>
    /\ timeSpans' = << >>
    /\ images' = << >>
    /\ full_color' = << >>
    /\ lastFrame' = NoFrame
    /\ candidates' = << >>
    /\ intIndices' = TRUE
    /\ indices' = << >>
    /\ cnt' = 1
    /\ write_header' = FALSE
    /\ result' = Pending
    /\ pc' = "opened"
    /\ UNCHANGED observed

\* keyframeDetection(source, Thres, max_keyframes, plotMetrics, verbose, dest)
Call ==
    \E isOpen \in BOOLEAN, len \in 0..MaxFrames :
        \* a capture that did not open reports no frames
        /\ (~isOpen => len = 0)
        /\ Enter(isOpen, len)

\* Lines 92-95: the capture did not open.
OpenFailed ==
    /\ pc = "opened"
    /\ ~opened
    /\ released' = released + 1
    /\ result' = None
    /\ pc' = "returned"
    /\ UNCHANGED << fsVars, runs, before, argVars, racers,
                    opened, length, passVars, selVars,
                    cnt, write_header, observed >>

\* Lines 124-125
DiffMag(blur_gray, last) == CountNonZero(Subtract(blur_gray, last))

\* Faulty variant of ReadFrame: frame 0 is differenced against a black
\* raster.
ReadFrameDiffsFirst ==
    /\ pc = "opened"
    /\ opened
    /\ i < length
    /\ \E blur_gray \in Rasters :
        LET frame_number == i
            now == clock + 1
        IN  /\ lstfrm' = Append(lstfrm, frame_number)
            /\ images' = Append(images, Frame(runs, frame_number))
            /\ full_color' = Append(full_color, Frame(runs, frame_number))
            /\ lastFrame' = blur_gray
            /\ clock' = now
            /\ IF frame_number = 0
               THEN /\ lstdiffMag' = Append(lstdiffMag,
                                DiffMag(blur_gray, [p \in Pixels |-> 0]))
                    /\ timeSpans' = Append(timeSpans, 0)
               ELSE /\ lstdiffMag' = Append(lstdiffMag, DiffMag(blur_gray, lastFrame))
                    /\ timeSpans' = Append(timeSpans, now)
    /\ i' = i + 1
    /\ UNCHANGED << fsVars, pc, runs, before, argVars, racers,
                    opened, released, length,
                    selVars, cnt, write_header, result, observed >>

\* Faulty variant of ReadFrame: lastFrame is set for frame 0 only, as if
\* line 130 were missing.
ReadFrameKeepsFirst ==
    /\ pc = "opened"
    /\ opened
    /\ i < length
    /\ \E blur_gray \in Rasters :
        LET frame_number == i
            now == clock + 1
        IN  /\ lstfrm' = Append(lstfrm, frame_number)
            /\ images' = Append(images, Frame(runs, frame_number))
            /\ full_color' = Append(full_color, Frame(runs, frame_number))
            /\ lastFrame' = IF frame_number = 0 THEN blur_gray ELSE lastFrame
            /\ clock' = now
            /\ IF frame_number = 0
               THEN /\ lstdiffMag' = Append(lstdiffMag, 0)
                    /\ timeSpans' = Append(timeSpans, 0)
               ELSE /\ lstdiffMag' = Append(lstdiffMag, DiffMag(blur_gray, lastFrame))
                    /\ timeSpans' = Append(timeSpans, now)
    /\ i' = i + 1
    /\ UNCHANGED << fsVars, pc, runs, before, argVars, racers,
                    opened, released, length,
                    selVars, cnt, write_header, result, observed >>

\* Faulty variant of ReadFrame: Start_time - stop_time is recorded.
ReadFrameTimeReversed ==
    /\ pc = "opened"
    /\ opened
    /\ i < length
    /\ \E blur_gray \in Rasters :
        LET frame_number == i
            now == clock + 1
        IN  /\ lstfrm' = Append(lstfrm, frame_number)
            /\ images' = Append(images, Frame(runs, frame_number))
            /\ full_color' = Append(full_color, Frame(runs, frame_number))
            /\ lastFrame' = blur_gray
            /\ clock' = now
            /\ IF frame_number = 0
               THEN /\ lstdiffMag' = Append(lstdiffMag, 0)
                    /\ timeSpans' = Append(timeSpans, 0)
               ELSE /\ lstdiffMag' = Append(lstdiffMag, DiffMag(blur_gray, lastFrame))
                    /\ timeSpans' = Append(timeSpans, 0 - now)
    /\ i' = i + 1
    /\ UNCHANGED << fsVars, pc, runs, before, argVars, racers,
                    opened, released, length,
                    selVars, cnt, write_header, result, observed >>

\* Faulty variant of ReadFrame: frame 0 leaves timeSpans as it is.
ReadFrameSkipsTime ==
    /\ pc = "opened"
    /\ opened
    /\ i < length
    /\ \E blur_gray \in Rasters :
        LET frame_number == i
            now == clock + 1
        IN  /\ lstfrm' = Append(lstfrm, frame_number)
            /\ images' = Append(images, Frame(runs, frame_number))
            /\ full_color' = Append(full_color, Frame(runs, frame_number))
            /\ lastFrame' = blur_gray
            /\ clock' = now
            /\ IF frame_number = 0
               THEN /\ lstdiffMag' = Append(lstdiffMag, 0)
                    /\ timeSpans' = timeSpans
               ELSE /\ lstdiffMag' = Append(lstdiffMag, DiffMag(blur_gray, lastFrame))
                    /\ timeSpans' = Append(timeSpans, now)
    /\ i' = i + 1
    /\ UNCHANGED << fsVars, pc, runs, before, argVars, racers,
                    opened, released, length,
                    selVars, cnt, write_header, result, observed >>

\* Lines 105-130, one iteration in which cap.read() gives a frame whose
\* blurred grayscale raster is blur_gray.  frame_number is the position
\* of the frame just read; an iteration takes one tick of processor time.
ReadFrame ==
    /\ pc = "opened"
    /\ opened
    /\ i < length
    /\ \E blur_gray \in Rasters :
        LET frame_number == i
            now == clock + 1
        IN  /\ lstfrm' = Append(lstfrm, frame_number)
            /\ images' = Append(images, Frame(runs, frame_number))
            /\ full_color' = Append(full_color, Frame(runs, frame_number))
            /\ lastFrame' = blur_gray
            /\ clock' = now
            /\ IF frame_number = 0
               THEN /\ lstdiffMag' = Append(lstdiffMag, 0)
                    /\ timeSpans' = Append(timeSpans, 0)
               ELSE /\ lstdiffMag' = Append(lstdiffMag, DiffMag(blur_gray, lastFrame))
                    /\ timeSpans' = Append(timeSpans, now)
    /\ i' = i + 1
    /\ UNCHANGED << fsVars, pc, runs, before, argVars, racers,
                    opened, released, length,
                    selVars, cnt, write_header, result, observed >>

\* Faulty variant of ReadFailed: the failed read ends the call with an
\* exception.
ReadFailedAborts ==
    /\ pc = "opened"
    /\ opened
    /\ i < length
    /\ released' = released + 1
    /\ result' = Raised
    /\ pc' = "returned"
    /\ UNCHANGED << fsVars, runs, before, argVars, racers,
                    opened, length, passVars, selVars,
                    cnt, write_header, observed >>

\* Lines 106-110 and 132: cap.read() fails, the pass stops early.
ReadFailed ==
    /\ pc = "opened"
    /\ opened
    /\ i < length
    /\ released' = released + 1
    /\ pc' = "passed"
    /\ UNCHANGED << fsVars, runs, before, argVars, racers,
                    opened, length, passVars, selVars,
                    cnt, write_header, result, observed >>

\* Faulty variant of PassDone: the capture is not released, as if line 132
\* were missing.
PassDoneNoRelease ==
    /\ pc = "opened"
    /\ opened
    /\ i = length
    /\ pc' = "passed"
    /\ UNCHANGED << fsVars, runs, before, argVars, racers,
                    opened, released, length, passVars, selVars,
                    cnt, write_header, result, observed >>

\* Lines 105 and 132: every reported frame was read.
PassDone ==
    /\ pc = "opened"
    /\ opened
    /\ i = length
    /\ released' = released + 1
    /\ pc' = "passed"
    /\ UNCHANGED << fsVars, runs, before, argVars, racers,
                    opened, length, passVars, selVars,
                    cnt, write_header, result, observed >>

\* Faulty variant of InsufficientData: the log is opened, and its header
\* written, before the length of the series is looked at.
InsufficientDataLogFirst ==
    /\ pc = "passed"
    /\ Len(lstdiffMag) < MinFrames
    /\ csvExists' = TRUE
    /\ csv' = IF csvExists THEN csv ELSE << << "Keyframe Log" >> >>
    /\ result' = None
    /\ pc' = "returned"
    /\ UNCHANGED << dirs, keyFrames, runs, before, argVars, racers,
                    opened, released, length,
                    passVars, selVars, cnt, write_header, observed >>

\* Lines 134-136
InsufficientData ==
    /\ pc = "passed"
    /\ Len(lstdiffMag) < MinFrames
    /\ result' = None
    /\ pc' = "returned"
    /\ UNCHANGED << fsVars, runs, before, argVars, racers,
                    opened, released, length, passVars,
                    selVars, cnt, write_header, observed >>

\* Lines 138-144: baseline, peak detection, cap.
Select ==
    /\ pc = "passed"
    /\ Len(lstdiffMag) >= MinFrames
    /\ \E base \in Baselines(Len(lstdiffMag)), thres \in 0..ThresDen,
          cap \in 1..MaxCap :
        LET y == Detrend(lstdiffMag, base)
            found == Indexes(y, thres)
        IN  /\ Thres' = thres
            /\ max_keyframes' = cap
            /\ candidates' = found
            /\ intIndices' = ~IsFlat(y)
            /\ indices' = CapIndices(found, lstdiffMag, cap)
    /\ pc' = "selected"
    /\ UNCHANGED << fsVars, runs, before, argVars, racers,
                    opened, released, length, passVars,
                    plotMetrics, cnt, write_header, result, observed >>

\* plot_metrics indexes y with indices: numpy raises IndexError for an
\* array of floats, which is what indices is after a flat signal.
PlotRaises == ~intIndices

\* Faulty variant of Plotted: the header is asked for whether or not
\* output.csv exists.
PlottedHeaderAlways ==
    /\ pc = "selected"
    /\ \E plot \in BOOLEAN :
        /\ plot => ~PlotRaises
        /\ plotMetrics' = plot
    /\ cnt' = 1
    /\ write_header' = TRUE
    /\ pc' = "writing"
    /\ UNCHANGED << fsVars, runs, before, argVars, racers,
                    opened, released, length, passVars,
                    Thres, max_keyframes, candidates, intIndices, indices,
                    result, observed >>

\* Faulty variant of Plotted: the numbering goes on from the rows the log
\* already holds.
PlottedNumbersGoOn ==
    /\ pc = "selected"
    /\ \E plot \in BOOLEAN :
        /\ plot => ~PlotRaises
        /\ plotMetrics' = plot
    /\ cnt' = IF csvExists THEN Len(csv) ELSE 1
    /\ write_header' = ~csvExists
    /\ pc' = "writing"
    /\ UNCHANGED << fsVars, runs, before, argVars, racers,
                    opened, released, length, passVars,
                    Thres, max_keyframes, candidates, intIndices, indices,
                    result, observed >>

\* Faulty variant of Plotted: an absent output.csv is created with its
\* header before the output loop.
PlottedWritesHeader ==
    /\ pc = "selected"
    /\ \E plot \in BOOLEAN :
        /\ plot => ~PlotRaises
        /\ plotMetrics' = plot
    /\ cnt' = 1
    /\ csv' = IF csvExists THEN csv ELSE << << "Keyframe Log" >> >>
    /\ csvExists' = TRUE
    /\ write_header' = FALSE
    /\ pc' = "writing"
    /\ UNCHANGED << dirs, keyFrames, runs, before, argVars, racers,
                    opened, released, length, passVars,
                    Thres, max_keyframes, candidates, intIndices, indices,
                    result, observed >>

\* Lines 146-150, the plot drawn (or not asked for).
Plotted ==
    /\ pc = "selected"
    /\ \E plot \in BOOLEAN :
        /\ plot => ~PlotRaises
        /\ plotMetrics' = plot
    /\ cnt' = 1
    /\ write_header' = ~csvExists
    /\ pc' = "writing"
    /\ UNCHANGED << fsVars, runs, before, argVars, racers,
                    opened, released, length, passVars,
                    Thres, max_keyframes, candidates, intIndices, indices,
                    result, observed >>

\* Lines 146-147: plot_metrics raises, either on the indexing above or
\* inside matplotlib; nothing catches it.
PlotFailed ==
    /\ pc = "selected"
    /\ plotMetrics' = TRUE
    /\ result' = Raised
    /\ pc' = "returned"
    /\ UNCHANGED << fsVars, runs, before, argVars, racers,
                    opened, released, length, passVars,
                    Thres, max_keyframes, candidates, intIndices, indices,
                    cnt, write_header, observed >>

\* Faulty variant of ImWrite: the files are numbered from 0.
ImWriteZeroBased(files, n, img) ==
    [k \in (DOMAIN files) \cup {n - 1} |-> IF k = n - 1 THEN img ELSE files[k]]

\* Faulty variant of ImWrite: the directory is emptied before the write.
ImWriteAlone(files, n, img) == [k \in {n} |-> img]

\* Faulty variant of ImWrite: the images numbered above n are removed.
ImWriteDropsHigher(files, n, img) ==
    [k \in { j \in DOMAIN files : j < n } \cup { n } |->
        IF k = n THEN img ELSE files[k]]

\* cv2.imwrite(os.path.join(keyframePath, f'keyframe{cnt}.jpg'), img)
ImWrite(files, n, img) ==
    [k \in (DOMAIN files) \cup {n} |-> IF k = n THEN img ELSE files[k]]

HeaderRow == << "Keyframe Log" >>

\* [f'keyframe {cnt} happened at {timeSpans[x]} sec.']
LogRow(n, t) == << "keyframe", n, t >>

\* Lines 157-162: the rows one iteration appends to output.csv.
RowsWritten(header, n, t) ==
    IF header THEN << HeaderRow, LogRow(n, t) >> ELSE << LogRow(n, t) >>

\* Faulty variant of WriteKeyframe: output.csv is opened with mode 'w'.
WriteKeyframeTruncating ==
    /\ pc = "writing"
    /\ cnt <= Len(indices)
    /\ LET x == indices[cnt]
       IN  /\ keyFrames' = ImWrite(keyFrames, cnt, full_color[x + 1])
           /\ csv' = RowsWritten(write_header, cnt, timeSpans[x + 1])
    /\ csvExists' = TRUE
    /\ write_header' = FALSE
    /\ cnt' = cnt + 1
    /\ UNCHANGED << dirs, pc, runs, before, argVars, racers,
                    opened, released, length,
                    passVars, selVars, result, observed >>

\* Lines 152-163, one iteration of the output loop.
WriteKeyframe ==
    /\ pc = "writing"
    /\ cnt <= Len(indices)
    /\ LET x == indices[cnt]
       IN  /\ keyFrames' = ImWrite(keyFrames, cnt, full_color[x + 1])
           /\ csv' = csv \o RowsWritten(write_header, cnt, timeSpans[x + 1])
    /\ csvExists' = TRUE
    /\ write_header' = FALSE
    /\ cnt' = cnt + 1
    /\ UNCHANGED << dirs, pc, runs, before, argVars, racers,
                    opened, released, length,
                    passVars, selVars, result, observed >>

\* Lines 152 and 165: the output loop is over; the function returns
\* without a return statement.
Return ==
    /\ pc = "writing"
    /\ cnt > Len(indices)
    /\ result' = None
    /\ pc' = "returned"
    /\ UNCHANGED << fsVars, runs, before, argVars, racers,
                    opened, released, length, passVars,
                    selVars, cnt, write_header, observed >>

\* How the call that has just returned went.
Outcome ==
    IF ~opened THEN "open_failed"
    ELSE IF Len(lstdiffMag) < MinFrames THEN "insufficient_data"
    ELSE IF result = Raised THEN "raised"
    ELSE IF indices = << >> THEN "no_keyframes"
    ELSE "keyframes"

\* The caller has the result; the next call may begin.
NextCall ==
    /\ pc = "returned"
    /\ pc' = "idle"
    /\ observed' = observed \cup { << Outcome, result >> }
    /\ UNCHANGED << fsVars, runs, before, argVars, racers,
                    opened, released, length, passVars,
                    selVars, cnt, write_header, result >>

Next ==
    \/ Call
    \/ OpenFailed
    \/ ReadFrame
    \/ ReadFailed
    \/ PassDone
    \/ InsufficientData
    \/ Select
    \/ Plotted
    \/ PlotFailed
    \/ WriteKeyframe
    \/ Return
    \/ NextCall

Spec == Init /\ [][Next]_vars

\* ------------------------------------------- the selection taken by itself

\* lstdiffMag after a pass over video, a sequence of blurred rasters.
MagSeries(video) ==
    [k \in DOMAIN video |->
        IF k = 1 THEN 0 ELSE DiffMag(video[k], video[k - 1])]

\* The first call into a fresh destination, after a pass that read every
\* frame of a video of MinFrames..SelFrames frames: the state in which
\* lines 138-165 start.
InitSel ==
    \E n \in MinFrames..SelFrames :
      \E video \in [1..n -> Rasters] :
        /\ racers = NoRacers
        /\ source = ClipPath
        /\ destArg = None
        /\ dest = DefaultDest(ClipPath)
        /\ dirs = AllDirs
        /\ keyFrames = << >>
        /\ csvExists = FALSE
        /\ csv = << >>
        /\ pc = "passed"
        /\ runs = 1
        /\ before = [dirs |-> {}, keyFrames |-> << >>,
                     csvExists |-> FALSE, csv |-> << >>]
        /\ opened = TRUE
        /\ released = 1
        /\ length = n
        /\ i = n
        /\ clock = n
        /\ lstfrm = [k \in 1..n |-> k - 1]
        /\ lstdiffMag = MagSeries(video)
        /\ timeSpans = [k \in 1..n |-> IF k = 1 THEN 0 ELSE k]
        /\ images = [k \in 1..n |-> Frame(1, k - 1)]
        /\ full_color = [k \in 1..n |-> Frame(1, k - 1)]
        /\ lastFrame = video[n]
        /\ Thres = 0
        /\ max_keyframes = 1
        /\ plotMetrics = FALSE
        /\ candidates = << >>
        /\ intIndices = TRUE
        /\ indices = << >>
        /\ cnt = 1
        /\ write_header = FALSE
        /\ result = Pending
        /\ observed = {}

NextSel ==
    \/ Select
    \/ Plotted
    \/ PlotFailed
    \/ WriteKeyframe
    \/ Return

SpecSel == InitSel /\ [][NextSel]_vars

\* ------------------------------------------------- one call taken by itself

\* The first call into a fresh destination, on a video that reports up to
\* CallFrames frames.
CallOnce ==
    /\ runs = 0
    /\ \E isOpen \in BOOLEAN, len \in 0..CallFrames :
        /\ (~isOpen => len = 0)
        /\ Enter(isOpen, len)

NextOne ==
    \/ CallOnce
    \/ OpenFailed
    \/ ReadFrame
    \/ ReadFailed
    \/ PassDone
    \/ InsufficientData
    \/ Select
    \/ Plotted
    \/ PlotFailed
    \/ WriteKeyframe
    \/ Return

SpecCall == Init /\ [][NextOne]_vars

\* The steps of a call once it is entered.  Every read and every write
\* returns, and the interpreter goes on to the next statement: a call that
\* can take a step takes one.
RunOn ==
    \/ OpenFailed \/ ReadFrame \/ ReadFailed \/ PassDone
    \/ InsufficientData \/ Select \/ Plotted \/ PlotFailed
    \/ WriteKeyframe \/ Return

SpecCallFair == Init /\ [][NextOne]_vars /\ WF_vars(RunOn)

\* --------------------------------- a call into a destination already used

\* The state in which a first call returns after it read a video of five
\* frames with magnitudes 0, 1, 0, 1, 0 and wrote frames 1 and 3.
LeftTwoKeyframes ==
    /\ racers = NoRacers
    /\ source = ClipPath
    /\ destArg = None
    /\ dest = DefaultDest(ClipPath)
    /\ dirs = AllDirs
    /\ keyFrames = << Frame(1, 1), Frame(1, 3) >>
    /\ csvExists = TRUE
    /\ csv = << HeaderRow, LogRow(1, 2), LogRow(2, 4) >>
    /\ pc = "returned"
    /\ runs = 1
    /\ before = [dirs |-> {}, keyFrames |-> << >>,
                 csvExists |-> FALSE, csv |-> << >>]
    /\ opened = TRUE
    /\ released = 1
    /\ length = 5
    /\ i = 5
    /\ clock = 5
    /\ lstfrm = << 0, 1, 2, 3, 4 >>
    /\ lstdiffMag = << 0, 1, 0, 1, 0 >>
    /\ timeSpans = << 0, 2, 3, 4, 5 >>
    /\ images = [k \in 1..5 |-> Frame(1, k - 1)]
    /\ full_color = [k \in 1..5 |-> Frame(1, k - 1)]
    /\ lastFrame = [p \in Pixels |-> 0]
    /\ Thres = 0
    /\ max_keyframes = 2
    /\ plotMetrics = FALSE
    /\ candidates = << 1, 3 >>
    /\ intIndices = TRUE
    /\ indices = << 1, 3 >>
    /\ cnt = 3
    /\ write_header = FALSE
    /\ result = None
    /\ observed = {}

\* The second call, on a video that reports up to CallFrames frames.
CallAgain ==
    /\ runs = 1
    /\ \E isOpen \in BOOLEAN, len \in 0..CallFrames :
        /\ (~isOpen => len = 0)
        /\ Enter(isOpen, len)

NextAgain ==
    \/ NextCall
    \/ CallAgain
    \/ OpenFailed
    \/ ReadFrame
    \/ ReadFailed
    \/ PassDone
    \/ InsufficientData
    \/ Select
    \/ Plotted
    \/ PlotFailed
    \/ WriteKeyframe
    \/ Return

SpecAgain == LeftTwoKeyframes /\ [][NextAgain]_vars

\* ------------------------------------------ calls that differ in their paths

\* The destination some caller names in place of the default.
GivenDest == << "d" >>

\* Before the first call, for every source path of up to MaxPathLen
\* characters, with dest omitted or given.
InitDest ==
    /\ source \in Paths
    /\ destArg \in { None, GivenDest }
    /\ NothingCalled
    /\ racers = NoRacers

\* The call on a source that does not open or holds no frame: lines 81-95
\* and 134-136 are all it runs.
CallDest ==
    /\ runs = 0
    /\ \E isOpen \in BOOLEAN : Enter(isOpen, 0)

NextDest ==
    \/ CallDest
    \/ OpenFailed
    \/ PassDone
    \/ InsufficientData
    \/ NextCall

SpecDest == InitDest /\ [][NextDest]_vars

\* ------------------------------------ two calls that overlap in time

\* Two calls of keyframeDetection with the same destination run at the
\* same time, in two threads or two processes.  Each has its own locals;
\* the directories, the images and output.csv are shared, and nothing in
\* the code locks them.  The pass and the selection of a call touch none
\* of the shared files, so they are one step here; the output loop is
\* taken statement by statement.
RunIds == { 1, 2 }

\* The selections a call may come to on a video of a few frames.
RaceSelections == { << >>, << 1 >>, << 2 >>, << 1, 3 >> }

NotEntered == [pc |-> "idle", indices |-> << >>, cnt |-> 1,
               write_header |-> FALSE, sawAbsent |-> FALSE]

\* Everything but the shared files and the locals of the two calls.
callVars == << argVars, pc, runs, before, opened, released, length,
               passVars, selVars, cnt, write_header, result, observed >>

InitTwo ==
    /\ source = ClipPath
    /\ destArg = None
    /\ NothingCalled
    /\ racers = [r \in RunIds |-> NotEntered]

\* Lines 81-144 of call r: the directories are made, the video is read
\* and the indices are selected.
RaceEnter(r) ==
    /\ racers[r].pc = "idle"
    /\ dirs' = prepare_dirs(dirs)
    /\ \E sel \in RaceSelections :
        racers' = [racers EXCEPT ![r].pc = "selected", ![r].indices = sel]
    /\ UNCHANGED << keyFrames, csvExists, csv, callVars >>

\* Lines 149-150 of call r.
RaceCheck(r) ==
    /\ racers[r].pc = "selected"
    /\ racers' = [racers EXCEPT ![r].pc = "image",
                                ![r].cnt = 1,
                                ![r].write_header = ~csvExists,
                                ![r].sawAbsent = ~csvExists]
    /\ UNCHANGED << fsVars, callVars >>

\* Lines 152-153 of call r: the image of the next selected frame.
RaceImWrite(r) ==
    /\ racers[r].pc = "image"
    /\ racers[r].cnt <= Len(racers[r].indices)
    /\ keyFrames' = ImWrite(keyFrames, racers[r].cnt,
                            Frame(r, racers[r].indices[racers[r].cnt]))
    /\ racers' = [racers EXCEPT ![r].pc = "log"]
    /\ UNCHANGED << dirs, csvExists, csv, callVars >>

\* Faulty variant of RaceLog: the header is written only when output.csv
\* is still absent at the time of the write.
RaceLogRechecks(r) ==
    /\ racers[r].pc = "log"
    /\ csv' = csv \o RowsWritten(racers[r].write_header /\ ~csvExists,
                                 racers[r].cnt,
                                 racers[r].indices[racers[r].cnt] + 1)
    /\ csvExists' = TRUE
    /\ racers' = [racers EXCEPT ![r].pc = "image",
                                ![r].write_header = FALSE,
                                ![r].cnt = racers[r].cnt + 1]
    /\ UNCHANGED << dirs, keyFrames, callVars >>

\* Lines 154-163 of call r: output.csv is opened for appending, the rows
\* are written and the file is closed.  The time logged for frame x is
\* that of the clock of the pass, x + 1 ticks.
RaceLog(r) ==
    /\ racers[r].pc = "log"
    /\ csv' = csv \o RowsWritten(racers[r].write_header,
                                 racers[r].cnt,
                                 racers[r].indices[racers[r].cnt] + 1)
    /\ csvExists' = TRUE
    /\ racers' = [racers EXCEPT ![r].pc = "image",
                                ![r].write_header = FALSE,
                                ![r].cnt = racers[r].cnt + 1]
    /\ UNCHANGED << dirs, keyFrames, callVars >>

\* Lines 152 and 165 of call r: the output loop is over.
RaceReturn(r) ==
    /\ racers[r].pc = "image"
    /\ racers[r].cnt > Len(racers[r].indices)
    /\ racers' = [racers EXCEPT ![r].pc = "returned"]
    /\ UNCHANGED << fsVars, callVars >>

Entering == \E r \in RunIds : RaceEnter(r)

Checking == \E r \in RunIds : RaceCheck(r)

WritingImage == \E r \in RunIds : RaceImWrite(r)

WritingLog == \E r \in RunIds : RaceLog(r)

Returning == \E r \in RunIds : RaceReturn(r)

NextTwo == Entering \/ Checking \/ WritingImage \/ WritingLog \/ Returning

SpecTwo == InitTwo /\ [][NextTwo]_vars

\* ------------------------------------------------------------------ claims

\* The selection of the call has been made.
Selected == pc \in { "selected", "writing", "returned" }

\* The images and the log, directories apart.
Files == [keyFrames |-> keyFrames, csvExists |-> csvExists, csv |-> csv]

FilesBefore == [keyFrames |-> before.keyFrames, csvExists |-> before.csvExists,
                csv |-> before.csv]

\* The keyframe rows this call has appended to output.csv.
IsKeyframeRow(r) == r # HeaderRow

RowsOfCall ==
    SelectSeq(SubSeq(csv, Len(before.csv) + 1, Len(csv)), IsKeyframeRow)

StrictlyAscending(s) == \A a, b \in DOMAIN s : a < b => s[a] < s[b]

Mag(x) == lstdiffMag[x + 1]

Kept == Range(indices)

Dropped == Range(candidates) \ Range(indices)

\* C1: a call in which fewer than 3 frames were read selects no keyframe
\* and leaves every keyframe image and output.csv as they were when the
\* call began, whatever frame count the container reported.
C1_FewerThanThreeFramesWriteNothing ==
    (pc \in { "opened", "passed", "returned" } /\ Len(lstdiffMag) < 3)
        => /\ indices = << >>
           /\ Files = FilesBefore

\* A call that read 2 of 3 reported frames has returned, into a
\* destination that held images and a log of an earlier call.
C1_Witness ==
    /\ pc = "returned"
    /\ opened
    /\ length = 3
    /\ Len(lstdiffMag) = 2
    /\ csvExists
    /\ DOMAIN keyFrames # {}

\* C2: every selected index, and so every frame written as a keyframe, is
\* one of the candidates the peak detector returned for this call.
C2_SelectionWithinCandidates ==
    Selected =>
        /\ Range(indices) \subseteq Range(candidates)
        /\ \A n \in DOMAIN keyFrames :
             \E x \in Range(candidates) : keyFrames[n] = full_color[x + 1]

\* The capping step dropped a candidate and the kept ones were written.
C2_Witness ==
    /\ pc = "returned"
    /\ result = None
    /\ Len(candidates) > max_keyframes
    /\ DOMAIN keyFrames # {}

\* C3: the number of selected keyframes is min(|Candidates|,
\* max_keyframes), and candidates that fit under the cap are all kept.
C3_SelectionSize ==
    Selected =>
        /\ Len(indices) = Min(Len(candidates), max_keyframes)
        /\ Len(candidates) <= max_keyframes => indices = candidates
        /\ (pc = "returned" /\ result = None) =>
              Cardinality(DOMAIN keyFrames) = Min(Len(candidates), max_keyframes)

\* Three candidates under a cap of two: two keyframes written.
C3_Witness ==
    /\ pc = "returned"
    /\ result = None
    /\ Len(candidates) = 3
    /\ max_keyframes = 2
    /\ Cardinality(DOMAIN keyFrames) = 2

\* C4: the indices handed to the output loop are strictly ascending, on
\* the capped and on the uncapped path.
C4_SelectionAscending == Selected => StrictlyAscending(indices)

\* The capped path kept two candidates of which the later one ranks
\* first; TLC also reaches the uncapped path with two candidates.
C4_Witness ==
    /\ pc = "writing"
    /\ Len(candidates) > max_keyframes
    /\ Len(indices) = 2
    /\ Mag(indices[1]) < Mag(indices[2])

\* C5: keyframe<n>.jpg, n = 1..k without gaps, holds the colour raster of
\* the n-th smallest selected frame, and the log row numbered n carries
\* the elapsed time recorded for that frame.
C5_FilesFollowFrameOrder ==
    pc \in { "writing", "returned" } =>
        LET asc == SetToAscSeq(Range(indices))
        IN  /\ DOMAIN keyFrames = 1..(cnt - 1)
            /\ Len(RowsOfCall) = cnt - 1
            /\ \A n \in 1..(cnt - 1) :
                 /\ keyFrames[n] = full_color[asc[n] + 1]
                 /\ RowsOfCall[n] = LogRow(n, timeSpans[asc[n] + 1])
            /\ (pc = "returned" /\ result = None) => cnt - 1 = Len(indices)

\* A call has written two keyframes and returned.
C5_Witness ==
    /\ pc = "returned"
    /\ result = None
    /\ Len(indices) = 2
    /\ DOMAIN keyFrames = { 1, 2 }
    /\ Len(csv) = 3

\* C6: when the cap drops candidates, every kept candidate has a raw
\* magnitude at least that of every dropped one.
C6_KeptOutrankDropped ==
    (Selected /\ Len(candidates) > max_keyframes) =>
        \A k \in Kept, d \in Dropped : Mag(k) >= Mag(d)

\* The earliest candidate was dropped for two later, larger ones.
C6_Witness ==
    /\ Selected
    /\ Len(candidates) > max_keyframes
    /\ \E d \in Dropped : \A k \in Kept : d < k /\ Mag(d) < Mag(k)
    /\ Len(indices) = 2

\* C7: among candidates of equal magnitude the cap keeps the earlier
\* ones: no dropped candidate has the magnitude of a kept one and a lower
\* frame index.
C7_TiesKeepEarlier ==
    (Selected /\ Len(candidates) > max_keyframes) =>
        ~ \E k \in Kept, d \in Dropped : Mag(d) = Mag(k) /\ d < k

\* A tie at the cut-off: a kept and a later dropped candidate of the same
\* magnitude.
C7_Witness ==
    /\ Selected
    /\ Len(candidates) > max_keyframes
    /\ \E k \in Kept, d \in Dropped : Mag(d) = Mag(k) /\ k < d

\* C8: a call whose video source cannot be opened leaves the destination
\* (the three directories, the images, output.csv) as it was.
C8_OpenFailureLeavesDestinationAsItWas ==
    (pc = "returned" /\ ~opened) => Snapshot = before

\* C9: a successful call returns the number of keyframe images it wrote.
CountValue(n) == << "int", n >>

C9_ReturnsNumberWritten ==
    (pc = "returned" /\ Outcome \in { "no_keyframes", "keyframes" })
        => result = CountValue(cnt - 1)

\* C10: the results of a call that could not open its source, of a call
\* that read fewer than 3 frames and of a successful call without
\* keyframes are not all the same value.
ResultsOf(o) == { p[2] : p \in { q \in observed : q[1] = o } }

C10_FailureDistinguishable ==
    LET all == ResultsOf("open_failed") \cup ResultsOf("insufficient_data")
                 \cup ResultsOf("no_keyframes")
    IN  (/\ ResultsOf("open_failed") # {}
         /\ ResultsOf("insufficient_data") # {}
         /\ ResultsOf("no_keyframes") # {})
            => Cardinality(all) > 1

\* C11: when a read fails at frame j, before the reported frame count, the
\* pass stops and the call goes on: the series holds exactly the j frames
\* read, in order, detection, selection and the output loop work on those
\* frames (given at least 3 of them), and no frame at or after j is read,
\* selected or written.
ReadFailedEarly ==
    /\ opened
    /\ pc \in { "passed", "selected", "writing", "returned" }
    /\ i < length

C11_ReadFailureEndsThePass ==
    ReadFailedEarly =>
        /\ lstfrm = [k \in 1..i |-> k - 1]
        /\ Len(lstdiffMag) = i
        /\ Len(timeSpans) = i
        /\ full_color = [k \in 1..i |-> Frame(runs, k - 1)]
        /\ \A x \in Range(indices) : x < i
        /\ \A n \in DOMAIN keyFrames : \E x \in 0..(i - 1) :
               keyFrames[n] = Frame(runs, x)
        /\ (pc = "passed" => result = Pending)
        /\ (pc = "passed" /\ i >= 3 => ENABLED Select)
        /\ (pc = "passed" /\ i < 3 => ENABLED InsufficientData)
        /\ (result = Raised => pc = "returned" /\ plotMetrics)

C11_Witness ==
    /\ ReadFailedEarly
    /\ pc = "returned"
    /\ result = None
    /\ i >= 3
    /\ cnt > 1

\* C12: output.csv, when it exists, has exactly one header row and that row
\* is its first; a call that finds output.csv present writes no header.
C12_OneHeaderFirst ==
    /\ csvExists =>
           /\ Len(csv) >= 1
           /\ csv[1] = HeaderRow
           /\ \A k \in 2..Len(csv) : csv[k] # HeaderRow
    /\ ~csvExists => csv = << >>
    /\ (pc = "writing" /\ before.csvExists) => ~write_header

C12_Witness ==
    /\ runs >= 2
    /\ pc = "returned"
    /\ before.csvExists
    /\ Len(csv) > Len(before.csv)

\* C13: output.csv only grows: the rows it held when the call began stay as
\* they were, and a call whose output loop ends after selecting k frames has
\* added exactly k keyframe rows, at the end.
KeyframeRows(file) == SelectSeq(file, IsKeyframeRow)

C13_LogAppendOnly ==
    /\ Len(before.csv) <= Len(csv)
    /\ SubSeq(csv, 1, Len(before.csv)) = before.csv
    /\ (pc = "returned" /\ Outcome \in { "no_keyframes", "keyframes" }) =>
           /\ Len(KeyframeRows(csv))
                 = Len(KeyframeRows(before.csv)) + Len(indices)
           /\ SubSeq(csv, Len(csv) - Len(indices) + 1, Len(csv))
                 = [n \in 1..Len(indices) |->
                        LogRow(n, timeSpans[indices[n] + 1])]

C13_Witness ==
    /\ pc = "returned"
    /\ Outcome = "keyframes"
    /\ Len(KeyframeRows(before.csv)) >= 1
    /\ Len(KeyframeRows(csv)) = Len(KeyframeRows(before.csv)) + 1

\* C14: the sequence numbers a call puts in its log rows and in its image
\* names are 1, 2, ..., k in that order, whatever the destination held.
C14_NumbersStartAtOne ==
    (pc \in { "writing", "returned" }) =>
        /\ Len(RowsOfCall) = cnt - 1
        /\ \A n \in 1..Len(RowsOfCall) : RowsOfCall[n][2] = n
        /\ \A n \in 1..(cnt - 1) :
               /\ n \in DOMAIN keyFrames
               /\ keyFrames[n][1] = runs

C14_Witness ==
    /\ pc = "returned"
    /\ Len(KeyframeRows(before.csv)) >= 1
    /\ DOMAIN before.keyFrames # {}
    /\ cnt = 2
    /\ RowsOfCall[1][2] = 1

\* C15: with Thres at the top of the range of the detrended series no frame
\* is a candidate, none is selected and nothing is written.
C15_TopThresholdSelectsNothing ==
    (Selected /\ Thres >= ThresDen) =>
        /\ candidates = << >>
        /\ indices = << >>
        /\ Files = FilesBefore

C15_Witness ==
    /\ pc = "returned"
    /\ result = None
    /\ Thres = ThresDen
    /\ intIndices
    /\ \E x \in 1..(Len(lstdiffMag) - 2) :
           Mag(x) > Mag(x - 1) /\ Mag(x) > Mag(x + 1)

\* C16: a call that finds no candidate completes normally, whatever
\* plotMetrics is: it raises nothing and writes no image and no log row.
\* Stated for the first of the claim's two cases, the flat detrended
\* series, where peakutils.indexes returns its empty array.
C16_NoCandidateCompletesNormally ==
    (pc = "returned" /\ opened /\ Len(lstdiffMag) >= MinFrames
        /\ candidates = << >> /\ ~intIndices)
        => (result = None /\ Files = FilesBefore)

\* C17: a call with plotMetrics true completes and writes what it would
\* write with plotMetrics false, one image and one row per selected frame,
\* whether or not the plot could be drawn.
C17_PlotFailureStaysInside ==
    (pc = "returned" /\ opened /\ Len(lstdiffMag) >= MinFrames
        /\ plotMetrics)
        => /\ result = None
           /\ cnt - 1 = Len(indices)
           /\ Len(RowsOfCall) = Len(indices)

\* C18: a call removes nothing: the files it creates or replaces are
\* keyframe1.jpg .. keyframek.jpg, output.csv keeps the rows it had, every
\* other file stays as it was, and the directories are those present
\* before together with the three of the destination.
C18_PriorContentKept ==
    /\ runs >= 1 => dirs = before.dirs \cup AllDirs
    /\ \A n \in DOMAIN before.keyFrames :
           /\ n \in DOMAIN keyFrames
           /\ (n >= cnt => keyFrames[n] = before.keyFrames[n])
    /\ \A n \in DOMAIN keyFrames \ DOMAIN before.keyFrames : n < cnt
    /\ before.csvExists => csvExists
    /\ Len(before.csv) <= Len(csv)
    /\ \A k \in 1..Len(before.csv) : csv[k] = before.csv[k]

C18_Witness ==
    /\ runs = 2
    /\ pc = "returned"
    /\ cnt = 2
    /\ keyFrames[1][1] = 2
    /\ keyFrames[2] = Frame(1, 3)
    /\ Len(csv) = 4

\* C19: with dest omitted, the destination is the source path without its
\* final extension, for every source path that has one, whatever dots and
\* separators come before it.
LastComponent(path) ==
    LET seps == { k \in DOMAIN path : path[k] = "/" }
        last == IF seps = {} THEN 0
                ELSE CHOOSE k \in seps : \A d \in seps : d <= k
    IN  (last + 1)..Len(path)

\* The dots of the last component that come after a character of the name.
ExtensionDots(path) ==
    { k \in LastComponent(path) :
        /\ path[k] = "."
        /\ \E j \in LastComponent(path) : j < k /\ path[j] # "." }

HasExtension(path) ==
    /\ ExtensionDots(path) # {}
    /\ path[Len(path)] = "c"

WithoutExtension(path) ==
    LET dots == ExtensionDots(path)
        final == CHOOSE k \in dots : \A d \in dots : d <= k
    IN  IF dots = {} THEN path ELSE SubSeq(path, 1, final - 1)

C19_DefaultDestDropsFinalExtension ==
    (runs >= 1 /\ destArg = None /\ HasExtension(source))
        => dest = WithoutExtension(source)

\* C21: the magnitude of every frame after the first is the number of pixel
\* positions at which its blurred raster differs from that of the frame
\* before, darker or brighter alike.
AbsDiffCount(a, b) == Cardinality({ p \in DOMAIN a : a[p] # b[p] })

C21_MagnitudeCountsEveryChange ==
    [][ (pc = "opened" /\ i > 0 /\ i' = i + 1)
            => lstdiffMag'[i'] = AbsDiffCount(lastFrame', lastFrame) ]_vars

\* C22: the series has one entry per frame read, in read order; the entry
\* of frame 0 has magnitude 0 and elapsed time 0 whatever its raster is, and
\* every magnitude is an integer from 0 to the number of pixels of a frame.
C22_OneEntryPerFrameRead ==
    /\ Len(lstdiffMag) = i
    /\ Len(timeSpans) = i
    /\ lstfrm = [k \in 1..i |-> k - 1]
    /\ i >= 1 => (lstdiffMag[1] = 0 /\ timeSpans[1] = 0)
    /\ \A k \in 1..i : lstdiffMag[k] \in 0..Cardinality(Pixels)

C22_Witness ==
    /\ pc = "passed"
    /\ i >= 3
    /\ lstdiffMag[1] = 0
    /\ \E k \in 2..i : lstdiffMag[k] = Cardinality(Pixels)
    /\ \E k \in 2..i : lstdiffMag[k] = 0

\* C23: after every frame processed lastFrame is the blurred raster of that
\* frame: it is set for frame 0 and for every later frame, it is never unset
\* when a later frame is differenced, and the magnitude of frame i > 0 is
\* the difference between the raster stored for frame i and the one stored
\* for frame i - 1.
C23_DifferencedAgainstFrameBefore ==
    [][ (pc = "opened" /\ i' = i + 1) =>
            /\ lastFrame' \in Rasters
            /\ i > 0 =>
                 /\ lastFrame \in Rasters
                 /\ lstdiffMag'[i'] = DiffMag(lastFrame', lastFrame)
                 /\ lstdiffMag' = Append(lstdiffMag, lstdiffMag'[i']) ]_vars

C23_Witness ==
    /\ pc = "opened"
    /\ i = 3
    /\ lstdiffMag[2] = 0
    /\ lstdiffMag[3] = Cardinality(Pixels)
    /\ lastFrame = [p \in Pixels |-> 1]

\* C24: the elapsed times of the series never decrease in frame order, the 0
\* of frame 0 included, so the times logged for keyframes 1..k of a call
\* never decrease in sequence number.
NonDecreasing(s) == \A a, b \in DOMAIN s : a < b => s[a] <= s[b]

C24_ElapsedNeverDecreases ==
    /\ NonDecreasing(timeSpans)
    /\ \A k \in DOMAIN timeSpans : timeSpans[k] <= clock
    /\ NonDecreasing([n \in DOMAIN RowsOfCall |-> RowsOfCall[n][3]])

C24_Witness ==
    /\ pc = "returned"
    /\ cnt = 3
    /\ Len(RowsOfCall) = 2
    /\ RowsOfCall[1][3] < RowsOfCall[2][3]
    /\ timeSpans[1] = 0

\* C26: the five lists of the pass have the same length after every
\* iteration and when the loop is left, so every index handed to the output
\* loop is a position of full_color and of timeSpans.
C26_ListsOfEqualLength ==
    /\ Len(lstfrm) = Len(lstdiffMag)
    /\ Len(timeSpans) = Len(lstdiffMag)
    /\ Len(images) = Len(lstdiffMag)
    /\ Len(full_color) = Len(lstdiffMag)
    /\ Selected => \A k \in DOMAIN indices :
           /\ indices[k] + 1 \in DOMAIN full_color
           /\ indices[k] + 1 \in DOMAIN timeSpans

C26_Witness ==
    /\ pc = "returned"
    /\ i = length
    /\ i >= 3
    /\ cnt > 1
    /\ Len(full_color) = i

\* C27: every candidate and every selected index x of a series of N frames
\* has 0 < x < N - 1: neither the first nor the last frame read is
\* selected, and a series of 3 frames selects frame 1 or nothing.
C27_EndFramesNeverSelected ==
    Selected =>
        /\ \A x \in Range(candidates) \cup Range(indices) :
               0 < x /\ x < Len(lstdiffMag) - 1
        /\ Len(lstdiffMag) = 3 => indices \in { << >>, << 1 >> }

C27_Witness ==
    /\ pc = "returned"
    /\ indices # << >>
    /\ Len(lstdiffMag) >= 4
    /\ \A x \in 0..(Len(lstdiffMag) - 2) : Mag(x) < Mag(Len(lstdiffMag) - 1)

\* C28: the header is written only together with the first keyframe row of
\* a call: a call that selects no frame into a destination without
\* output.csv leaves it absent, output.csv never holds a header alone, and
\* a later call with keyframes still writes the header.
C28_HeaderComesWithFirstRow ==
    /\ csvExists => (Len(csv) >= 2 /\ csv[1] = HeaderRow
                        /\ IsKeyframeRow(csv[2]))
    /\ (pc = "returned" /\ ~before.csvExists /\ cnt = 1) => ~csvExists
    /\ (pc = "writing" /\ ~before.csvExists /\ cnt = 1) => write_header

C28_Witness ==
    /\ pc = "returned"
    /\ \E o \in observed : o[1] = "no_keyframes"
    /\ ~before.csvExists
    /\ csvExists
    /\ Len(csv) = 2

\* C29: a second call that selects k2 frames into a destination where the
\* first call left k1 > k2 images replaces keyframe1 .. keyframe<k2> and
\* leaves keyframe<k2+1> .. keyframe<k1> of the first call in place, so the
\* directory holds max(k1, k2) images, more than the second call selected.
ImagesOfCall(r) == { n \in DOMAIN keyFrames : keyFrames[n][1] = r }

C29_LaterCallLeavesHigherNumbers ==
    (runs = 2 /\ pc = "returned"
        /\ Outcome \in { "no_keyframes", "keyframes" })
        => LET k1 == Len(before.keyFrames)
               k2 == Len(indices)
           IN  /\ DOMAIN keyFrames = 1..(IF k1 >= k2 THEN k1 ELSE k2)
               /\ ImagesOfCall(2) = 1..k2
               /\ \A n \in (k2 + 1)..k1 : keyFrames[n] = before.keyFrames[n]

C29_Witness ==
    /\ runs = 2
    /\ pc = "returned"
    /\ Len(before.keyFrames) = 2
    /\ Len(indices) = 1
    /\ ImagesOfCall(1) = { 2 }
    /\ ImagesOfCall(2) = { 1 }

\* C30: every call that is entered returns; the pass reads no more frames
\* than the count reported at open time and none after a failed read, the
\* output loop runs once per selected index, and the capture has been
\* released exactly once when the call returns.
C30_CallTerminatesReleasedOnce ==
    /\ (pc = "opened") ~> (pc = "returned")
    /\ [](i <= length)
    /\ [][pc # "opened" => (i' = i \/ i' = 0)]_vars
    /\ []((pc = "returned" /\ Outcome \in { "no_keyframes", "keyframes" })
            => cnt = Len(indices) + 1)
    /\ [](pc = "opened" => released = 0)
    /\ [](pc \in { "passed", "selected", "writing", "returned" }
            => released = 1)

C30_Witness ==
    /\ pc = "returned"
    /\ opened
    /\ released = 1
    /\ i = length
    /\ cnt = 3
    /\ Len(indices) = 2

\* C25: nothing locks the destination, so every call that found output.csv
\* absent at line 150 writes a header with its first row: when two calls
\* that overlap both find it absent and both select a frame, the log ends
\* with two header rows, and the images the two calls wrote under the same
\* number are those of one call only.
HeaderCount(file) == Cardinality({ k \in DOMAIN file : file[k] = HeaderRow })

C25_OverlappingCallsBothWriteHeader ==
    LET wrote == { r \in RunIds : racers[r].sawAbsent /\ racers[r].cnt > 1 }
        done  == \A r \in RunIds : racers[r].pc = "returned"
        k(r)  == Len(racers[r].indices)
    IN  /\ HeaderCount(csv) = Cardinality(wrote)
        /\ (done /\ \A r \in RunIds : racers[r].sawAbsent /\ k(r) >= 1)
              => /\ HeaderCount(csv) = 2
                 /\ Len(keyFrames) < k(1) + k(2)

C25_Witness ==
    /\ \A r \in RunIds : racers[r].pc = "returned"
    /\ HeaderCount(csv) = 2
    /\ csv[1] = HeaderRow
    /\ csv[3] = HeaderRow
    /\ racers[2].indices # << >>
    /\ \A n \in DOMAIN keyFrames : keyFrames[n][1] = 1

====
